---- MODULE Spec2Model ----
(***************************************************************************)
(* Post-processing of LLM generated answers into json summaries:           *)
(* api/scholarqa/postprocess/json_output_utils.py.                         *)
(*                                                                         *)
(* Python strings are TLA+ strings; a character is a string of length 1.   *)
(* Python dicts are kept in insertion order as sequences of <<key, value>> *)
(* pairs, except where only membership and size are read.                  *)
(***************************************************************************)
EXTENDS Integers, Sequences, FiniteSets, TLC

VARIABLES
    pc,               \* position of the running driver
    summary_quotes,   \* get_json_summary: the quote pool as passed in (insertion order)
    summary_sections, \* get_json_summary: the raw sections consumed so far
    sections,         \* get_json_summary: the sections built so far
    citation_ids,     \* the DisambiguationState: ref_str -> (corpus id -> label)
    ref_log,          \* get_json_summary: per section, the resolution of each reference
    calls,            \* direct resolve_ref_id calls made so far, with their results
    arg,              \* argument of the pure function under test
    res               \* its result, NoValue before the call

vars == <<pc, summary_quotes, summary_sections, sections, citation_ids, ref_log,
          calls, arg, res>>

NoValue == [none |-> TRUE]

-----------------------------------------------------------------------------
(* Python str primitives *)

\* the Python slice s[i-1:j], empty when out of range
Sub(s, i, j) ==
    LET lo == IF i < 1 THEN 1 ELSE i
        hi == IF j > Len(s) THEN Len(s) ELSE j
    IN  IF lo > hi THEN "" ELSE SubSeq(s, lo, hi)

Ch(s, i) == Sub(s, i, i)

Min(S) == CHOOSE m \in S : \A n \in S : m <= n

Max(S) == CHOOSE m \in S : \A n \in S : m >= n

CharsOf(s) == {Ch(s, i) : i \in 1..Len(s)}

DigitChars == CharsOf("0123456789")

UpperChars == CharsOf("ABCDEFGHIJKLMNOPQRSTUVWXYZ")

LowerChars == CharsOf("abcdefghijklmnopqrstuvwxyz")

\* str.strip() and the regex class \s
SpaceChars == {" ", "\n", "\t"}

\* the regex class \w (str patterns are Unicode aware)
WordChars == DigitChars \cup UpperChars \cup LowerChars \cup {"_", "ü", "é"}

NameChars == UpperChars \cup LowerChars \cup {".", " "}

LowerMap ==
    [c \in UpperChars |->
        Ch("abcdefghijklmnopqrstuvwxyz",
           CHOOSE k \in 1..26 : Ch("ABCDEFGHIJKLMNOPQRSTUVWXYZ", k) = c)]

LowerOf(c) == IF c \in UpperChars THEN LowerMap[c] ELSE c

\* str.lower(), by halves; a string without upper-case letters is returned as it is
RECURSIVE LowerStr(_)
LowerStr(s) ==
    IF Len(s) <= 1 THEN LowerOf(s)
    ELSE IF CharsOf(s) \cap UpperChars = {} THEN s
    ELSE LowerStr(Sub(s, 1, Len(s) \div 2)) \o LowerStr(Sub(s, Len(s) \div 2 + 1, Len(s)))

StartsWith(s, p) == Len(p) <= Len(s) /\ Sub(s, 1, Len(p)) = p

EndsWith(s, p) == Len(p) <= Len(s) /\ Sub(s, Len(s) - Len(p) + 1, Len(s)) = p

\* s[i:] with a 1-based i
From(s, i) == Sub(s, i, Len(s))

\* str.find from position i (1-based); 0 when absent
FindFrom(s, sub, i) ==
    LET at == {j \in i..(Len(s) - Len(sub) + 1) :
                 /\ Ch(s, j) = Ch(sub, 1)
                 /\ Sub(s, j, j + Len(sub) - 1) = sub}
    IN  IF sub = "" THEN (IF i <= Len(s) + 1 THEN i ELSE 0)
        ELSE IF at = {} THEN 0 ELSE Min(at)

Contains(s, sub) == FindFrom(s, sub, 1) # 0

\* str.lstrip(chars) / str.rstrip(chars) / str.strip(chars)
LStripChars(s, chars) ==
    LET keep == {i \in 1..Len(s) : Ch(s, i) \notin chars}
    IN  IF keep = {} THEN "" ELSE From(s, Min(keep))

RStripChars(s, chars) ==
    LET keep == {i \in 1..Len(s) : Ch(s, i) \notin chars}
    IN  IF keep = {} THEN "" ELSE Sub(s, 1, Max(keep))

StripChars(s, chars) == RStripChars(LStripChars(s, chars), chars)

Strip(s) == StripChars(s, SpaceChars)

\* str.replace(old, new), old not empty
RECURSIVE Replace(_, _, _)
Replace(s, old, new) ==
    LET j == FindFrom(s, old, 1)
    IN  IF j = 0 THEN s
        ELSE Sub(s, 1, j - 1) \o new \o Replace(From(s, j + Len(old)), old, new)

\* str.split(sep), sep not empty
RECURSIVE Split(_, _)
Split(s, sep) ==
    LET j == FindFrom(s, sep, 1)
    IN  IF j = 0 THEN <<s>>
        ELSE <<Sub(s, 1, j - 1)>> \o Split(From(s, j + Len(sep)), sep)

\* str.split(sep, 1)
Split1(s, sep) ==
    LET j == FindFrom(s, sep, 1)
    IN  IF j = 0 THEN <<s>> ELSE <<Sub(s, 1, j - 1), From(s, j + Len(sep))>>

\* anyascii: transliteration to ASCII, character by character
AnyAsciiChar(c) ==
    CASE c = "ü" -> "u"
      [] c = "é" -> "e"
      [] OTHER -> c

\* the characters anyascii changes
NonAsciiChars == {"ü", "é"}

\* by halves; a string of ASCII characters is returned as it is
RECURSIVE anyascii(_)
anyascii(s) ==
    IF Len(s) <= 1 THEN AnyAsciiChar(s)
    ELSE IF CharsOf(s) \cap NonAsciiChars = {} THEN s
    ELSE anyascii(Sub(s, 1, Len(s) \div 2)) \o anyascii(Sub(s, Len(s) \div 2 + 1, Len(s)))

\* the value of a string of decimal digits
RECURSIVE DigitsValue(_)
DigitsValue(s) ==
    IF s = "" THEN 0
    ELSE 10 * DigitsValue(Sub(s, 1, Len(s) - 1))
         + (CHOOSE d \in 0..9 : Ch("0123456789", d + 1) = Ch(s, Len(s)))

\* utils.make_int: int(x), 0 when int() raises
make_int(x) ==
    LET t == Strip(x)
    IN  IF t # "" /\ CharsOf(t) \subseteq DigitChars THEN DigitsValue(t) ELSE 0

-----------------------------------------------------------------------------
(* Insertion-ordered dicts as sequences of <<key, value>> *)

Keys(d) == {d[i][1] : i \in 1..Len(d)}

Get(d, k) == d[CHOOSE i \in 1..Len(d) : d[i][1] = k][2]

\* d[k] = v: a new key goes last, a known key keeps its place
Put(d, k, v) ==
    IF k \in Keys(d)
    THEN [i \in 1..Len(d) |-> IF d[i][1] = k THEN <<k, v>> ELSE d[i]]
    ELSE Append(d, <<k, v>>)

\* {f(k): v for k, v in d.items()} with the keys mapped by a per-key operator
RECURSIVE PutAll(_, _)
PutAll(d, items) ==
    IF items = <<>> THEN d
    ELSE PutAll(Put(d, items[1][1], items[1][2]), Tail(items))

-----------------------------------------------------------------------------
(* resolve_ref_id *)

\* the label without its count suffix
UnsuffixedRefStr(ref_str, n) == ref_str

\* f"{rfsplits[0]}_{n},{rfsplits[1]}" or f"{ref_str}_{n}"
SuffixedRefStr(ref_str, n) ==
    LET rfsplits == Split(ref_str, ",")
    IN  IF Len(rfsplits) > 1
        THEN rfsplits[1] \o "_" \o ToString(n) \o "," \o rfsplits[2]
        ELSE ref_str \o "_" \o ToString(n)

\* the entries recorded under ref_str, {} when ref_str is new
EntriesOf(ids, ref_str) ==
    IF ref_str \in DOMAIN ids THEN ids[ref_str] ELSE <<>>

\* the label resolve_ref_id returns
RefStrId(ids, ref_str, ref_corpus_id) ==
    LET known == EntriesOf(ids, ref_str)
    IN  IF ref_corpus_id \notin DOMAIN known
        THEN IF DOMAIN known # {}
             THEN SuffixedRefStr(ref_str, Cardinality(DOMAIN known))
             ELSE ref_str
        ELSE known[ref_corpus_id]

\* a state in which the entries under ref_str start again with the pair of the call
ResolveRefIdReset(ids, ref_str, ref_corpus_id) ==
    [s \in DOMAIN ids \cup {ref_str} |->
        IF s = ref_str THEN (ref_corpus_id :> RefStrId(ids, ref_str, ref_corpus_id))
        ELSE ids[s]]

\* the state resolve_ref_id leaves behind
ResolveRefIdState(ids, ref_str, ref_corpus_id) ==
    LET known == EntriesOf(ids, ref_str)
        entry == IF ref_corpus_id \in DOMAIN known THEN known
                 ELSE known @@ (ref_corpus_id :> RefStrId(ids, ref_str, ref_corpus_id))
    IN  [s \in DOMAIN ids \cup {ref_str} |-> IF s = ref_str THEN entry ELSE ids[s]]

-----------------------------------------------------------------------------
(* normalize_id and key_to_norm_id (closures of get_json_summary) *)

\* for prefix in [...]: if norm.startswith(prefix): norm = norm[len(prefix):]
RECURSIVE DropPrefixes(_, _)
DropPrefixes(norm, prefixes) ==
    IF prefixes = <<>> THEN norm
    ELSE DropPrefixes(IF StartsWith(norm, prefixes[1])
                      THEN From(norm, Len(prefixes[1]) + 1)
                      ELSE norm,
                      Tail(prefixes))

normalize_id(id_token) ==
    LET norm     == Strip(anyascii(id_token))
        unlabel  == DropPrefixes(norm, <<"paperid ", "paperId ", "arxiv:", "arXiv:">>)
        trimmed  == RStripChars(unlabel, {".", ",", ";", ":", " ", "]"})
    IN  LStripChars(trimmed, {"["})

\* key[1:-1].split(" | ")
KeyParts(key) == Split(Sub(key, 2, Len(key) - 1), " | ")

key_to_norm_id(key) == normalize_id(KeyParts(key)[1])

-----------------------------------------------------------------------------
(* find_tldr_super_token and get_section_text *)

\* the first position from i where text holds sub (in lower case), ignoring case; 0: none
FoldedFind(text, sub, i) ==
    LET at == {j \in i..(Len(text) - Len(sub) + 1) :
                 /\ LowerOf(Ch(text, j)) = Ch(sub, 1)
                 /\ LowerStr(Sub(text, j, j + Len(sub) - 1)) = sub}
    IN  IF at = {} THEN 0 ELSE Min(at)

\* a character class: the members of chars, or with ~neg their complement
Class(chars, neg) == [chars |-> chars, neg |-> neg]

InClass(c, class) == (c \in class.chars) # class.neg

WordClass == Class(WordChars, FALSE)        \* \w

NonSpaceClass == Class(SpaceChars, TRUE)    \* \S, [^\s]

NameClass == Class(NameChars, FALSE)        \* [A-Za-z. ]

DigitClass == Class(DigitChars, FALSE)      \* \d

\* the ends of the maximal run of characters of class around position i
RECURSIVE RunLo(_, _, _)
RunLo(text, i, class) ==
    IF i > 1 /\ InClass(Ch(text, i - 1), class) THEN RunLo(text, i - 1, class) ELSE i

RECURSIVE RunHi(_, _, _)
RunHi(text, i, class) ==
    IF i < Len(text) /\ InClass(Ch(text, i + 1), class) THEN RunHi(text, i + 1, class)
    ELSE i

RunAround(text, i, class) == Sub(text, RunLo(text, i, class), RunHi(text, i, class))

\* re.search(r"\b\w*tldr\w*\b", text, re.IGNORECASE), "" for no match
TldrWord(text) ==
    LET at == FoldedFind(text, "tldr", 1)
    IN  IF at = 0 THEN "" ELSE RunAround(text, at, WordClass)

\* re.search of [^\s]*<re.escape(tldr_token)>[^\s]* ignoring case; "" for None (a
\* match is never empty)
find_tldr_super_token(text) ==
    LET tldr_token == TldrWord(text)
        at == FoldedFind(text, LowerStr(tldr_token), 1)
    IN  IF tldr_token = "" \/ at = 0 THEN ""
        ELSE RunAround(text, at, NonSpaceClass)

\* re.sub(r"\s*" + re.escape(word), "", s)
RECURSIVE DropAnnotation(_, _)
DropAnnotation(s, word) ==
    LET j == FindFrom(s, word, 1)
        ws == {a \in 1..j : \A k \in a..(j - 1) : Ch(s, k) \in SpaceChars}
    IN  IF j = 0 THEN s
        ELSE Sub(s, 1, Min(ws) - 1) \o DropAnnotation(From(s, j + Len(word)), word)

\* a section with every field defaulted
EmptySection == [raised |-> FALSE, title |-> "", tldr |-> "", text |-> ""]

\* raise Exception("Invalid content generated for the query by the LLM"), or the
\* IndexError of text_parts[1]
Raised == [raised |-> TRUE, title |-> "", tldr |-> "", text |-> ""]

\* a section whose missing second part is defaulted to an empty body
EmptyBody(title, text_parts) ==
    [raised |-> FALSE,
     title |-> Strip(StripChars(title, {"#"})),
     tldr |-> Strip(StripChars(text_parts[1], {"#"})),
     text |-> ""]

\* text = text_parts[1] when the content after the token is one line: IndexError
NoSecondLine(title, text_parts) == Raised

\* a split at the first occurrence of the token only
TokenPartsOnce(gen_text, tldr_token) == Split1(gen_text, tldr_token)

\* gen_text.split(tldr_token)
TokenParts(gen_text, tldr_token) == Split(gen_text, tldr_token)

get_section_text(gen_text) ==
    LET tldr_token == find_tldr_super_token(gen_text)
        parts == IF tldr_token # "" THEN TokenParts(gen_text, tldr_token) ELSE <<gen_text>>
    IN  IF Len(parts) > 1
        THEN LET title == DropAnnotation(DropAnnotation(Strip(parts[1]), "(list)"),
                                         "(synthesis)")
                 text_parts == Split1(Strip(parts[2]), "\n")
             IN  IF Len(text_parts) < 2 THEN NoSecondLine(title, text_parts)
                 ELSE [raised |-> FALSE,
                       title |-> Strip(StripChars(title, {"#"})),
                       tldr |-> Strip(StripChars(text_parts[1], {"#"})),
                       text |-> text_parts[2]]
        ELSE Raised

-----------------------------------------------------------------------------
(* get_json_summary: preprocessing of the section text *)

\* the end of the maximal run of characters of class from i; i - 1 when empty
RunEnd(text, i, class) ==
    IF i >= 1 /\ i <= Len(text) /\ InClass(Ch(text, i), class)
    THEN RunHi(text, i, class) ELSE i - 1

\* where (\S+ \| [A-Za-z. ]+ \| \d+ \| Citations: \d+) matched at g ends; 0: no match
CompositeEnd(text, g) ==
    LET a  == RunEnd(text, g, NonSpaceClass)     \* \S+
        n1 == RunEnd(text, a + 4, NameClass)     \* [A-Za-z. ]+ and the " " after it
        d1 == RunEnd(text, n1 + 3, DigitClass)     \* \d+
        c1 == RunEnd(text, d1 + 15, DigitClass)     \* \d+
    IN  IF /\ a >= g
           /\ Sub(text, a + 1, a + 3) = " | "
           /\ n1 >= a + 5
           /\ Sub(text, n1, n1 + 2) = " | "
           /\ d1 >= n1 + 3
           /\ Sub(text, d1 + 1, d1 + 14) = " | Citations: "
           /\ c1 >= d1 + 15
        THEN c1 ELSE 0

\* the group's start for a match of (?:; )?(...) at p; 0: no match at p
CompositeStart(text, p) ==
    IF Sub(text, p, p + 1) = "; " /\ CompositeEnd(text, p + 2) # 0 THEN p + 2
    ELSE IF CompositeEnd(text, p) # 0 THEN p
    ELSE 0

\* the first position from p where the pattern matches; 0: none
CompositeFind(text, p) ==
    LET at == {q \in p..Len(text) : CompositeStart(text, q) # 0}
    IN  IF at = {} THEN 0 ELSE Min(at)

\* re.sub(pattern, r"] [\1", text)
RECURSIVE AdjacencyFix(_)
AdjacencyFix(text) ==
    LET p == CompositeFind(text, 1)
        g == CompositeStart(text, p)
        e == CompositeEnd(text, g)
    IN  IF p = 0 THEN text
        ELSE Sub(text, 1, p - 1) \o "] [" \o Sub(text, g, e)
             \o AdjacencyFix(From(text, e + 1))

\* re.findall(r"\[.*?\]", text)
\* where the reference opening at i closes; 0 when it does not on its line
RefClose(text, i) ==
    LET j == FindFrom(text, "]", i + 1)
    IN  IF j # 0 /\ ~Contains(Sub(text, i, j), "\n") THEN j ELSE 0

RECURSIVE FindReferencesFrom(_, _)
FindReferencesFrom(text, i) ==
    LET o == FindFrom(text, "[", i)
        j == RefClose(text, o)
    IN  IF o = 0 THEN <<>>
        ELSE IF j = 0 THEN FindReferencesFrom(text, o + 1)
        ELSE <<Sub(text, o, j)>> \o FindReferencesFrom(text, j + 1)

FindReferences(text) == FindReferencesFrom(text, 1)

\* a text whose space runs are kept
KeepSpaces(text) == text

\* re.sub(r"[ ]+", " ", text)
RECURSIVE CollapseSpaces(_)
CollapseSpaces(text) ==
    LET j == FindFrom(text, "  ", 1)
    IN  IF j = 0 THEN text
        ELSE CollapseSpaces(Sub(text, 1, j) \o From(text, j + 2))

\* str.capitalize() of an ASCII name
Capitalize(s) ==
    IF s = "" THEN ""
    ELSE LET c == Ch(s, 1)
             up == IF c \in LowerChars
                   THEN Ch("ABCDEFGHIJKLMNOPQRSTUVWXYZ",
                           CHOOSE k \in 1..26 : Ch("abcdefghijklmnopqrstuvwxyz", k) = c)
                   ELSE c
         IN  up \o LowerStr(From(s, 2))

\* f'<Model name="{llm_name_parts[0].capitalize()}" version="{llm_name_parts[1]}">'
llm_ref_format(llm_model) ==
    LET llm_name_parts == Split1(llm_model, "/")
    IN  "<Model name=\"" \o Capitalize(llm_name_parts[1]) \o "\" version=\""
        \o llm_name_parts[2] \o "\">"

-----------------------------------------------------------------------------
(* get_json_summary: the pools and the resolution of one reference *)

\* {anyascii(k): v for k, v in summary_quotes.items()}
RECURSIVE AsciiKeyed(_)
AsciiKeyed(items) ==
    IF items = <<>> THEN <<>>
    ELSE <<<<anyascii(items[1][1]), items[1][2]>>>> \o AsciiKeyed(Tail(items))

MainPool(quotes) == PutAll(<<>>, AsciiKeyed(quotes))

\* the items of every record's inline_citations, in the pool's order
RECURSIVE InlineItems(_)
InlineItems(pool) ==
    IF pool = <<>> THEN <<>>
    ELSE pool[1][2].inline_citations \o InlineItems(Tail(pool))

InlinePool(quotes) == PutAll(<<>>, AsciiKeyed(InlineItems(MainPool(quotes))))

\* {key_to_norm_id(k): k for k in pool.keys()}
RECURSIVE NormKeyed(_)
NormKeyed(pool) ==
    IF pool = <<>> THEN <<>>
    ELSE <<<<key_to_norm_id(pool[1][1]), pool[1][1]>>>> \o NormKeyed(Tail(pool))

IdToKey(pool) == PutAll(<<>>, NormKeyed(pool))

\* [k for k in id_to_key.keys() if k.startswith(norm_ref_id)] if norm_ref_id else []
Candidates(id_to_key, norm_ref_id) ==
    IF norm_ref_id = "" THEN <<>>
    ELSE SelectSeq([i \in 1..Len(id_to_key) |-> id_to_key[i][1]],
                   LAMBDA k : StartsWith(k, norm_ref_id))

Unresolved == [key |-> "", source |-> "none", how |-> "none"]

\* the resolution chain of one reference, given the id maps and the reference's id
ResolveWith(ref, main, inline, id_to_main_key, id_to_inline_key, norm_ref_id) ==
    LET main_candidates   == Candidates(id_to_main_key, norm_ref_id)
        inline_candidates == Candidates(id_to_inline_key, norm_ref_id)
    IN  IF ref \in Keys(main)
        THEN [key |-> ref, source |-> "main", how |-> "exact"]
        ELSE IF ref \in Keys(inline)
        THEN [key |-> ref, source |-> "inline", how |-> "exact"]
        ELSE IF norm_ref_id \in Keys(id_to_main_key)
        THEN [key |-> Get(id_to_main_key, norm_ref_id), source |-> "main", how |-> "id"]
        ELSE IF norm_ref_id \in Keys(id_to_inline_key)
        THEN [key |-> Get(id_to_inline_key, norm_ref_id), source |-> "inline", how |-> "id"]
        ELSE IF Len(main_candidates) = 1
        THEN [key |-> Get(id_to_main_key, main_candidates[1]), source |-> "main",
              how |-> "prefix"]
        ELSE IF Len(inline_candidates) = 1
        THEN [key |-> Get(id_to_inline_key, inline_candidates[1]), source |-> "inline",
              how |-> "prefix"]
        ELSE Unresolved

\* normalize_id(ref[1:-1].split(" | ")[0])
NormRefId(ref) == normalize_id(Split(Sub(ref, 2, Len(ref) - 1), " | ")[1])

\* a resolution that looks into the inline pool before the quote pool
SwapSource(r) ==
    [r EXCEPT !.source = IF @ = "main" THEN "inline" ELSE IF @ = "inline" THEN "main" ELSE @]

ResolveInlineFirst(ref, main, inline) ==
    SwapSource(ResolveWith(ref, inline, main, IdToKey(inline), IdToKey(main), NormRefId(ref)))

\* resolved_key and resolved_source for one reference (already transliterated)
ResolveKey(ref, main, inline) ==
    ResolveWith(ref, main, inline, IdToKey(main), IdToKey(inline), NormRefId(ref))

-----------------------------------------------------------------------------
(* pop_ref_data and the body of the loop over the references *)

RECURSIVE StripEach(_)
StripEach(seq) ==
    IF seq = <<>> THEN <<>> ELSE <<Strip(seq[1])>> \o StripEach(Tail(seq))

\* Python values whose type the code tests or converts, each with its type
PyStr(s) == [type |-> "str", val |-> s]

PyInt(n) == [type |-> "int", val |-> n]

PyNone == [type |-> "none", val |-> ""]

\* utils.make_int on a value of any of these types
make_int_of(x) ==
    IF x.type = "int" THEN x.val
    ELSE IF x.type = "str" THEN make_int(x.val)
    ELSE 0

\* str(ref_corpus_id) if ref_corpus_id is not None else ""
CorpusIdStr(ref_corpus_id) ==
    IF ref_corpus_id.type = "none" THEN ""
    ELSE IF ref_corpus_id.type = "int" THEN ToString(ref_corpus_id.val)
    ELSE ref_corpus_id.val

\* d.get(k), NoValue for None
GetOrNone(d, k) == IF k \in Keys(d) THEN Get(d, k) ELSE NoValue

\* a metadata test that finds no entry
NoMetadata(curr_paper_metadata) == FALSE

\* `if curr_paper_metadata:` (None and the empty dict are false)
HasMetadata(curr_paper_metadata) ==
    curr_paper_metadata # NoValue /\ DOMAIN curr_paper_metadata # {}

\* curr_paper_metadata.get("relevance_judgement", 0)
ScoreOf(curr_paper_metadata) ==
    IF "relevance_judgement" \in DOMAIN curr_paper_metadata
    THEN curr_paper_metadata.relevance_judgement ELSE 0

\* make_int(curr_paper_metadata.get("year", 0))
YearOf(curr_paper_metadata) ==
    IF "year" \in DOMAIN curr_paper_metadata
    THEN make_int_of(curr_paper_metadata.year) ELSE make_int_of(PyInt(0))

\* the fields of curr_ref["paper"] are kept beside id, snippets and score
pop_ref_data(ref_str_id, ref_corpus_id, fixed_quote, curr_paper_metadata) ==
    IF HasMetadata(curr_paper_metadata)
    THEN [id |-> ref_str_id,
          snippets |-> StripEach(Split(fixed_quote, "...")),
          corpus_id |-> CorpusIdStr(ref_corpus_id),
          score |-> ScoreOf(curr_paper_metadata),
          title |-> curr_paper_metadata.title,
          authors |-> curr_paper_metadata.authors,
          year |-> YearOf(curr_paper_metadata),
          venue |-> curr_paper_metadata.venue,
          n_citations |-> curr_paper_metadata.citationCount]
    ELSE [id |-> ref_str_id,
          snippets |-> StripEach(Split(fixed_quote, "...")),
          corpus_id |-> CorpusIdStr(ref_corpus_id)]

\* an entry of the metadata lookup
MetadataEntry(title, year, citationCount) ==
    [title |-> title, authors |-> <<"A. Smith">>, year |-> year, venue |-> "ACL",
     citationCount |-> citationCount]

\* the metadata lookup of the answers: entries for two of the corpus ids of the pools
paper_metadata ==
    << <<"123", MetadataEntry("Paper 123", PyInt(2020), 5)>>,
       <<"1234", MetadataEntry("Paper 1234", PyStr("2019"), 2)>> >>

\* U+201C and U+201D, written with the guillemets of the module's character set
LeftQuote == "«"

RightQuote == "»"

\* the quote as handed to pop_ref_data
FixedQuote(quote) ==
    LET q0 == Replace(Replace(Strip(quote), LeftQuote, "\""), RightQuote, "\"")
        q1 == IF StartsWith(q0, "...") THEN From(q0, 4) ELSE q0
    IN  IF EndsWith(q1, "...") THEN Sub(q1, 1, Len(q1) - 3) ELSE q1

\* f"({ref_parts[1]}, {make_int(ref_parts[2])})".replace("NULL, ", "")
RefStr(ref_parts) ==
    Replace("(" \o ref_parts[2] \o ", " \o ToString(make_int(ref_parts[3])) \o ")",
            "NULL, ", "")

LogEntry(ref, r, cited) ==
    [ref |-> ref, key |-> r.key, source |-> r.source, how |-> r.how, cited |-> cited]

\* a test of refs_done that never finds the id
NeverDone(refs_done, norm_done_id) == FALSE

\* norm_done_id in refs_done
AlreadyDone(refs_done, norm_done_id) == norm_done_id \in refs_done

\* the resolved branch, once ref_str_id and the normalized corpus id are known
CiteAs(cur, ref, r, ref_str, ref_corpus_id, ref_str_id, norm_done_id, quote) ==
    IF ~AlreadyDone(cur.refs_done, norm_done_id)
    THEN [text |-> Replace(cur.text, ref, ref_str_id),
          refs_list |-> Append(cur.refs_list,
                               pop_ref_data(ref_str_id, PyStr(ref_corpus_id), FixedQuote(quote),
                                            GetOrNone(paper_metadata, ref_corpus_id))),
          refs_done |-> cur.refs_done \cup {norm_done_id},
          ids |-> ResolveRefIdState(cur.ids, ref_str, ref_corpus_id),
          log |-> Append(cur.log, LogEntry(ref, r, TRUE))]
    ELSE [cur EXCEPT !.log = Append(cur.log, LogEntry(ref, r, FALSE))]

\* the resolved branch, once ref_str and ref_corpus_id are known
CiteStr(cur, ref, r, ref_str, ref_corpus_id, quote) ==
    CiteAs(cur, ref, r, ref_str, ref_corpus_id,
           RefStrId(cur.ids, ref_str, ref_corpus_id), normalize_id(ref_corpus_id), quote)

\* the resolved branch: ref_parts and the quote of the resolved key
Cite(cur, ref, r, ref_parts, quote) ==
    CiteStr(cur, ref, r, RefStr(ref_parts), ref_parts[1], quote)

\* the body of the loop after the resolution of ref
RefResolved(cur, ref, r, main, inline) ==
    IF r.key # ""
    THEN Cite(cur, ref, r, KeyParts(r.key),
              IF r.source = "main" THEN Get(main, r.key).quote ELSE Get(inline, r.key))
    ELSE [cur EXCEPT !.text = Replace(cur.text, ref, ""),
                     !.log = Append(cur.log, LogEntry(ref, r, FALSE))]

RefAscii(cur, ref, main, inline) ==
    RefResolved(cur, ref, ResolveKey(ref, main, inline), main, inline)

\* one iteration of `for ref in references`; cur holds the loop's variables
RefStep(cur, raw_ref, main, inline) == RefAscii(cur, anyascii(raw_ref), main, inline)

RECURSIVE RefLoop(_, _, _, _)
RefLoop(cur, references, main, inline) ==
    IF references = <<>> THEN cur
    ELSE RefLoop(RefStep(cur, references[1], main, inline), Tail(references), main, inline)

\* a suffix that is plural for every count
TldrWithPlural(tldr, refs_list) ==
    IF tldr = "" THEN tldr
    ELSE IF refs_list # <<>>
    THEN tldr \o " (" \o ToString(Len(refs_list)) \o " sources)"
    ELSE tldr \o " (LLM Memory)"

\* the tldr with the number of unique citations of the section
TldrWithSources(tldr, refs_list) ==
    IF tldr = "" THEN tldr
    ELSE IF refs_list # <<>>
    THEN tldr \o (IF Len(refs_list) > 1
                  THEN " (" \o ToString(Len(refs_list)) \o " sources)"
                  ELSE " (1 source)")
    ELSE tldr \o " (LLM Memory)"

\* the section returned, from the variables the loop over the references leaves
SectionEnd(curr_section, end) ==
    [raised |-> FALSE,
     section |-> [title |-> curr_section.title,
                  tldr |-> TldrWithSources(curr_section.tldr, end.refs_list),
                  text |-> CollapseSpaces(end.text),
                  citations |-> end.refs_list],
     ids |-> end.ids,
     log |-> end.log]

\* the loop over the references of the preprocessed text
SectionRefs(curr_section, text, llm_model, main, inline, ids) ==
    SectionEnd(curr_section,
               RefLoop([text |-> Replace(text, "[LLM MEMORY | 2024]",
                                         llm_ref_format(llm_model)),
                        refs_list |-> <<>>, refs_done |-> {}, ids |-> ids, log |-> <<>>],
                       FindReferences(text), main, inline))

\* an iteration that raises and empties the DisambiguationState
RolledBack(ids) == [raised |-> TRUE, section |-> NoValue, ids |-> <<>>, log |-> <<>>]

\* get_section_text raised: no section, and citation_ids as the earlier sections left it
RaisedStep(ids) == [raised |-> TRUE, section |-> NoValue, ids |-> ids, log |-> <<>>]

SectionOf(curr_section, llm_model, quotes, ids) ==
    IF curr_section.raised
    THEN RaisedStep(ids)
    ELSE SectionRefs(curr_section, Replace(AdjacencyFix(curr_section.text), "[]", ""),
                     llm_model, MainPool(quotes), InlinePool(quotes), ids)

\* an iteration that starts from an empty DisambiguationState
SectionStepAlone(sec, llm_model, quotes, ids) ==
    SectionOf(get_section_text(sec), llm_model, quotes, <<>>)

\* one iteration of `for sec in summary_sections`
SectionStep(sec, llm_model, quotes, ids) ==
    SectionOf(get_section_text(sec), llm_model, quotes, ids)

-----------------------------------------------------------------------------
(* Inputs *)

MaxSections == 2

\* bracket tokens in all the sections of one answer
MaxRefs == 3

K1 == "[123 | Smith | 2020 | Citations: 5]"

K2 == "[456 | Smith | 2020 | Citations: 7]"

K3 == "[arXiv:123 | Jones | 2021 | Citations: 1]"

K4 == "[1234 | Lee | 2019 | Citations: 2]"

I1 == "[123 | Smith-Lee | 2020 | Citations: 5]"

I2 == "[129 | Wu | 2018 | Citations: 3]"

QuoteRecord(quote, inline_citations) ==
    [quote |-> quote, inline_citations |-> inline_citations]

\* the quote pools the answers are assembled against, each with the bracket tokens
\* the section bodies written against it cite
Scenarios ==
    { [quotes |-> << <<K1, QuoteRecord("relevant text", <<>>)>> >>,
       pieces |-> {K1, "[123]"}],
      [quotes |-> << <<K1, QuoteRecord("relevant text", <<>>)>>,
                     <<K2, QuoteRecord("...A... B...C...", <<>>)>> >>,
       pieces |-> {K1, K2}],
      [quotes |-> << <<K1, QuoteRecord("relevant text", <<>>)>>,
                     <<K2, QuoteRecord("...A... B...C...", << <<I1, "abstract one">> >>)>> >>,
       pieces |-> {K1, I1}],
      [quotes |-> << <<K1, QuoteRecord("relevant text", <<>>)>>,
                     <<K3, QuoteRecord("other text", <<>>)>> >>,
       pieces |-> {K1, "[12]"}],
      [quotes |-> << <<K1, QuoteRecord("relevant text", << <<I2, "abstract two">> >>)>>,
                     <<K4, QuoteRecord("more text", <<>>)>> >>,
       pieces |-> {"[12]", "[999]"}],
      [quotes |-> << <<K4, QuoteRecord("more text", <<>>)>> >>,
       pieces |-> {"[999]", "[Müller]"}],
      [quotes |-> << <<K1, QuoteRecord("relevant text", <<>>)>>,
                     <<K4, [quote |-> "more text"]>> >>,
       pieces |-> {K1, K4}] }

Pools == {s.quotes : s \in Scenarios}

\* what a section body written against the pool cites
Pieces(quotes) == (CHOOSE s \in Scenarios : s.quotes = quotes).pieces

RECURSIVE Body(_)
Body(pieces) ==
    IF pieces = <<>> THEN "." ELSE " " \o pieces[1] \o Body(Tail(pieces))

SectionText(pieces) == "Intro TLDR: s\nSee" \o Body(pieces)

\* a section without a summary line
Malformed == "Intro"

\* a section with a summary line and nothing after it
NoBody == "Intro TLDR: s"

PieceSeqs(pieces, n) == UNION {[1..k -> pieces] : k \in 0..n}

CountChar(s, c) == Cardinality({i \in 1..Len(s) : Ch(s, i) = c})

RECURSIVE RefsIn(_)
RefsIn(secs) ==
    IF secs = <<>> THEN 0 ELSE CountChar(secs[1], "[") + RefsIn(Tail(secs))

LlmModel == "openai/gpt-4o"

-----------------------------------------------------------------------------
(* get_json_summary, one section per step *)

Idle ==
    /\ calls = <<>>
    /\ arg = ""
    /\ res = NoValue

Init ==
    /\ pc = "start"
    /\ summary_quotes \in Pools
    /\ summary_sections = <<>>
    /\ sections = <<>>
    /\ citation_ids = <<>>
    /\ ref_log = <<>>
    /\ Idle

\* every quote record has the inline_citations that lines 218-219 read
HasInlineCitations(quotes) ==
    \A k \in 1..Len(quotes) : "inline_citations" \in DOMAIN quotes[k][2]

\* the pools and the id maps are built before the first section;
\* incite["inline_citations"] raises KeyError
BuildPools ==
    /\ pc = "start"
    /\ pc' = IF HasInlineCitations(summary_quotes) THEN "sections" ELSE "raised"
    /\ UNCHANGED <<summary_quotes, summary_sections, sections, citation_ids, ref_log,
                   calls, arg, res>>

ProcessSection(sec) ==
    /\ pc = "sections"
    /\ \E r \in {SectionStep(sec, LlmModel, summary_quotes, citation_ids)} :
           /\ summary_sections' = Append(summary_sections, sec)
           /\ IF r.raised
              THEN /\ pc' = "raised"
                   /\ citation_ids' = r.ids
                   /\ UNCHANGED <<sections, ref_log>>
              ELSE /\ pc' = "sections"
                   /\ sections' = Append(sections, r.section)
                   /\ citation_ids' = r.ids
                   /\ ref_log' = Append(ref_log, r.log)
    /\ UNCHANGED <<summary_quotes, calls, arg, res>>

\* the loop over summary_sections is over: return sections
Return ==
    /\ pc = "sections"
    /\ pc' = "returned"
    /\ res' = sections
    /\ UNCHANGED <<summary_quotes, summary_sections, sections, citation_ids, ref_log,
                   calls, arg>>

\* the next section of summary_sections is well formed, or is not
NextSection ==
    /\ pc = "sections"
    /\ Len(summary_sections) < MaxSections
    /\ \/ \E pieces \in PieceSeqs(Pieces(summary_quotes),
                                   MaxRefs - RefsIn(summary_sections)) :
              ProcessSection(SectionText(pieces))
       \/ \E sec \in {Malformed, NoBody} : ProcessSection(sec)

Next ==
    \/ BuildPools
    \/ NextSection
    \/ Return

Spec == Init /\ [][Next]_vars

-----------------------------------------------------------------------------
(* resolve_ref_id called directly on one DisambiguationState *)

MaxCalls == 4

RefStrs == {"(Smith, 2020)", "(Smith_1, 2020)", "(Doe, J., 2024)", "(2020)"}

CorpusIds == {"123", "456", "789"}

InitResolveRef ==
    /\ pc = "resolve_ref_id"
    /\ summary_quotes = <<>>
    /\ summary_sections = <<>>
    /\ sections = <<>>
    /\ citation_ids = <<>>
    /\ ref_log = <<>>
    /\ Idle

ResolveRefId(ref_str, ref_corpus_id) ==
    /\ pc = "resolve_ref_id"
    /\ Len(calls) < MaxCalls
    /\ calls' = Append(calls, [ref_str |-> ref_str, ref_corpus_id |-> ref_corpus_id,
                               ref_str_id |-> RefStrId(citation_ids, ref_str, ref_corpus_id)])
    /\ citation_ids' = ResolveRefIdState(citation_ids, ref_str, ref_corpus_id)
    /\ UNCHANGED <<pc, summary_quotes, summary_sections, sections, ref_log, arg, res>>

NextResolveRef ==
    \E ref_str \in RefStrs, ref_corpus_id \in CorpusIds : ResolveRefId(ref_str, ref_corpus_id)

SpecResolveRef == InitResolveRef /\ [][NextResolveRef]_vars

-----------------------------------------------------------------------------
(* normalize_id applied to an identifier token, and again to its result *)

MaxFragments == 3

MaxApply == 2

IdFragments == {"paperid ", "paperId ", "arxiv:", "arXiv:", "[", " ", "12", ".", "]", "ü"}

RECURSIVE Concat(_)
Concat(strs) == IF strs = <<>> THEN "" ELSE strs[1] \o Concat(Tail(strs))

Texts(fragments, n) == {Concat(fs) : fs \in UNION {[1..k -> fragments] : k \in 0..n}}

InitNormalize ==
    /\ pc = "normalize_id"
    /\ summary_quotes = <<>>
    /\ summary_sections = <<>>
    /\ sections = <<>>
    /\ citation_ids = <<>>
    /\ ref_log = <<>>
    /\ calls = <<>>
    /\ arg \in Texts(IdFragments, MaxFragments)
    /\ res = <<>>

\* res holds normalize_id(arg), normalize_id(normalize_id(arg)), ...
NormalizeId ==
    /\ pc = "normalize_id"
    /\ Len(res) < MaxApply
    /\ res' = Append(res, normalize_id(IF res = <<>> THEN arg ELSE res[Len(res)]))
    /\ UNCHANGED <<pc, summary_quotes, summary_sections, sections, citation_ids, ref_log,
                   calls, arg>>

SpecNormalize == InitNormalize /\ [][NormalizeId]_vars

-----------------------------------------------------------------------------
(* get_section_text applied to one generated section *)

TextFragments == {"Intro", " ", "TLDR:", "**tldr**", "\n", "Body", "#", "tl", "dr"}

\* longer texts, whose token occurs again: after the body, within the body, within the
\* tldr line, in another case, as a part of a longer token
RecurringTexts ==
    {"Intro TLDR: s\nBody\nTLDR: t\nmore", "Intro TLDR: s\nBody TLDR: more",
     "# Intro **tldr** s\nBody **tldr** x\ny", "Intro TLDR: s TLDR: t\nBody",
     "Intro tldr s\nBody TLDR: x\ny", "TLDR: s\nBody xTLDR:y end"}

InitSection ==
    /\ pc = "get_section_text"
    /\ summary_quotes = <<>>
    /\ summary_sections = <<>>
    /\ sections = <<>>
    /\ citation_ids = <<>>
    /\ ref_log = <<>>
    /\ calls = <<>>
    /\ arg \in Texts(TextFragments, MaxFragments + 1) \cup RecurringTexts
    /\ res = NoValue

\* res holds the section returned, or Raised
GetSectionText ==
    /\ pc = "get_section_text"
    /\ res = NoValue
    /\ res' = get_section_text(arg)
    /\ UNCHANGED <<pc, summary_quotes, summary_sections, sections, citation_ids, ref_log,
                   calls, arg>>

SpecSection == InitSection /\ [][GetSectionText]_vars

-----------------------------------------------------------------------------
(* pop_ref_data called on one resolved reference, as lines 306-319 call it *)

QuoteFragments == {"...", "A", " ", "B"}

Quotes == Texts(QuoteFragments, MaxFragments) \cup {"...A... B...C..."}

CorpusIdValues == {PyStr("123"), PyStr("2509.01324"), PyInt(123), PyNone}

\* what paper_metadata.get(ref_corpus_id) can be: None, or an entry whose year is an
\* int, a numeric or another string, None or missing, with or without a score
MetadataValues ==
    { NoValue,
      MetadataEntry("T", PyInt(2024), 12),
      MetadataEntry("T", PyStr("2021"), 12),
      MetadataEntry("T", PyStr("n/a"), 12),
      MetadataEntry("T", PyNone, 12),
      [title |-> "T", authors |-> <<"A. Smith">>, venue |-> "ACL", citationCount |-> 12],
      [title |-> "T", authors |-> <<"A. Smith">>, year |-> PyInt(2024), venue |-> "ACL",
       citationCount |-> 12, relevance_judgement |-> 2] }

InitPopRef ==
    /\ pc = "pop_ref_data"
    /\ summary_quotes = <<>>
    /\ summary_sections = <<>>
    /\ sections = <<>>
    /\ citation_ids = <<>>
    /\ ref_log = <<>>
    /\ calls = <<>>
    /\ arg \in [quote : Quotes, ref_corpus_id : CorpusIdValues,
                curr_paper_metadata : MetadataValues]
    /\ res = NoValue

PopRefData ==
    /\ pc = "pop_ref_data"
    /\ res = NoValue
    /\ res' = pop_ref_data("(Smith, 2020)", arg.ref_corpus_id, FixedQuote(arg.quote),
                           arg.curr_paper_metadata)
    /\ UNCHANGED <<pc, summary_quotes, summary_sections, sections, citation_ids, ref_log,
                   calls, arg>>

SpecPopRef == InitPopRef /\ [][PopRefData]_vars

-----------------------------------------------------------------------------
(* safe_json_parse.  A parsed value is kept as its Python repr, which is one-to-one on
   the ints, strs, lists and tuples that the inputs below parse to.  json.loads and
   ast.literal_eval are modelled on the characters of those inputs: brackets, quotes,
   digits, commas, blanks; any other character ends the parse with an error. *)

ParseFail == [ok |-> FALSE, val |-> "", pos |-> 0]

\* a value and the position after it
Parsed(val, pos) == [ok |-> TRUE, val |-> val, pos |-> pos]

\* repr() of a str
StrRepr(content) ==
    IF ~Contains(content, "'") THEN "'" \o content \o "'"
    ELSE IF ~Contains(content, "\"") THEN "\"" \o content \o "\""
    ELSE "'" \o Replace(content, "'", "\\'") \o "'"

\* ", ".join(vals)
RECURSIVE Join(_)
Join(vals) ==
    IF vals = <<>> THEN ""
    ELSE IF Len(vals) = 1 THEN vals[1]
    ELSE vals[1] \o ", " \o Join(Tail(vals))

\* repr() of a list and of a tuple, from the reprs of their items
ListRepr(vals) == "[" \o Join(vals) \o "]"

TupleRepr(vals) == IF Len(vals) = 1 THEN "(" \o vals[1] \o ",)" ELSE "(" \o Join(vals) \o ")"

\* the first position from i on that holds no character of chars
Skip(s, i, chars) == Min({j \in i..(Len(s) + 1) : Ch(s, j) \notin chars})

\* the digits that start at i
Digits(s, i) == Sub(s, i, RunHi(s, i, DigitClass))

\* json.loads: a string from the quote at k to the quote at j; no control character
JsonString(s, k, j) ==
    IF j = 0 \/ Contains(Sub(s, k + 1, j - 1), "\n") THEN ParseFail
    ELSE Parsed(StrRepr(Sub(s, k + 1, j - 1)), j + 1)

\* json.loads: an int without a leading zero
JsonNumber(s, k, digits) ==
    IF Ch(digits, 1) = "0" THEN Parsed("0", k + 1) ELSE Parsed(digits, k + Len(digits))

RECURSIVE JsonValue(_, _)

RECURSIVE JsonItem(_, _, _)

\* json.loads: after an item of an array, at the next character that is not blank
JsonItemEnd(s, acc, j) ==
    IF Ch(s, j) = "," THEN JsonItem(s, acc, JsonValue(s, j + 1))
    ELSE IF Ch(s, j) = "]" THEN Parsed(ListRepr(acc), j + 1)
    ELSE ParseFail

\* json.loads: the item v of an array whose earlier items are acc
JsonItem(s, acc, v) ==
    IF v.ok THEN JsonItemEnd(s, Append(acc, v.val), Skip(s, v.pos, SpaceChars))
    ELSE ParseFail

\* json.loads: an array, from the first character after "[" that is not blank
JsonArray(s, j) ==
    IF Ch(s, j) = "]" THEN Parsed("[]", j + 1) ELSE JsonItem(s, <<>>, JsonValue(s, j))

\* json.loads: the value that starts at k
JsonValueAt(s, k) ==
    IF Ch(s, k) = "\"" THEN JsonString(s, k, FindFrom(s, "\"", k + 1))
    ELSE IF Ch(s, k) \in DigitChars THEN JsonNumber(s, k, Digits(s, k))
    ELSE IF Ch(s, k) = "[" THEN JsonArray(s, Skip(s, k + 1, SpaceChars))
    ELSE IF Sub(s, k, k + 3) = "null" THEN Parsed("None", k + 4)
    ELSE ParseFail

JsonValue(s, i) == JsonValueAt(s, Skip(s, i, SpaceChars))

\* json.loads: nothing but blanks may follow the value ("Extra data")
JsonEnd(s, v) == IF v.ok /\ Skip(s, v.pos, SpaceChars) > Len(s) THEN v ELSE ParseFail

json_loads(s) == JsonEnd(s, JsonValue(s, 1))

\* blanks between the tokens of a Python expression, outside and inside brackets
PySpace == {" ", "\t"}

PyBracketSpace == {" ", "\t", "\n"}

RECURSIVE PyStrings(_, _, _, _)

\* ast.literal_eval: after a string literal; adjacent literals are concatenated
PyStringNext(s, acc, n, blanks) ==
    IF Ch(s, n) \in {"'", "\""} THEN PyStrings(s, n, acc, blanks)
    ELSE Parsed(StrRepr(acc), n)

\* ast.literal_eval: a literal with quotes of length q opened at k and closed at j
PyStringTo(s, k, acc, blanks, q, j) ==
    IF j = 0 \/ (q = 1 /\ Contains(Sub(s, k + 1, j - 1), "\n")) THEN ParseFail
    ELSE PyStringNext(s, acc \o Sub(s, k + q, j - 1), Skip(s, j + q, blanks), blanks)

\* ast.literal_eval: the string literal at k, triple-quoted or not
PyStrings(s, k, acc, blanks) ==
    IF Sub(s, k, k + 2) \in {"'''", "\"\"\""}
    THEN PyStringTo(s, k, acc, blanks, 3, FindFrom(s, Sub(s, k, k + 2), k + 3))
    ELSE PyStringTo(s, k, acc, blanks, 1, FindFrom(s, Ch(s, k), k + 1))

\* ast.literal_eval: an int; a leading zero is allowed in a run of zeros only
PyNumber(s, k, digits) ==
    IF Ch(digits, 1) # "0" THEN Parsed(digits, k + Len(digits))
    ELSE IF CharsOf(digits) = {"0"} THEN Parsed("0", k + Len(digits))
    ELSE ParseFail

RECURSIVE PyAtom(_, _, _)

RECURSIVE PyItem(_, _, _)

\* ast.literal_eval: after the comma that follows an item of a list
PyItemMore(s, acc, n) ==
    IF Ch(s, n) = "]" THEN Parsed(ListRepr(acc), n + 1)
    ELSE PyItem(s, acc, PyAtom(s, n, PyBracketSpace))

\* ast.literal_eval: after an item of a list
PyItemEnd(s, acc, j) ==
    IF Ch(s, j) = "," THEN PyItemMore(s, acc, Skip(s, j + 1, PyBracketSpace))
    ELSE IF Ch(s, j) = "]" THEN Parsed(ListRepr(acc), j + 1)
    ELSE ParseFail

\* ast.literal_eval: the item v of a list whose earlier items are acc
PyItem(s, acc, v) ==
    IF v.ok THEN PyItemEnd(s, Append(acc, v.val), Skip(s, v.pos, PyBracketSpace))
    ELSE ParseFail

\* ast.literal_eval: a list display, from the first character after "["
PyList(s, j) ==
    IF Ch(s, j) = "]" THEN Parsed("[]", j + 1)
    ELSE PyItem(s, <<>>, PyAtom(s, j, PyBracketSpace))

\* ast.literal_eval: the atom that starts at k
PyAtomAt(s, k, blanks) ==
    IF Ch(s, k) \in {"'", "\""} THEN PyStrings(s, k, "", blanks)
    ELSE IF Ch(s, k) \in DigitChars THEN PyNumber(s, k, Digits(s, k))
    ELSE IF Ch(s, k) = "[" THEN PyList(s, Skip(s, k + 1, PyBracketSpace))
    ELSE IF Sub(s, k, k + 3) = "None" /\ Ch(s, k + 4) \notin WordChars
    THEN Parsed("None", k + 4)
    ELSE ParseFail

PyAtom(s, i, blanks) == PyAtomAt(s, Skip(s, i, blanks), blanks)

RECURSIVE PyTop(_, _, _)

\* ast.literal_eval: after an atom of the expression; a comma makes it a tuple
PyTopEnd(s, acc, j) ==
    IF j > Len(s) THEN Parsed(IF Len(acc) = 1 THEN acc[1] ELSE TupleRepr(acc), j)
    ELSE IF Ch(s, j) # "," THEN ParseFail
    ELSE IF Skip(s, j + 1, PySpace) > Len(s) THEN Parsed(TupleRepr(acc), j + 1)
    ELSE PyTop(s, acc, PyAtom(s, j + 1, PySpace))

PyTop(s, acc, v) ==
    IF v.ok THEN PyTopEnd(s, Append(acc, v.val), Skip(s, v.pos, PySpace)) ELSE ParseFail

\* ast.literal_eval(text): leading blanks are dropped
literal_eval(s) == PyTop(s, <<>>, PyAtom(s, 1, PySpace))

\* strip_code_fences, from the inner text of the fence on
FenceInner(inner, first_newline) ==
    IF first_newline # 0
       /\ LowerStr(Strip(Sub(inner, 1, first_newline - 1)))
              \in {"json", "javascript", "ts", "python"}
    THEN Strip(From(inner, first_newline + 1))
    ELSE inner

\* three backquotes, written with the tildes that stand for them in the module
CodeFence == "~~~"

\* strip_code_fences, on the stripped text
Unfenced(text) ==
    IF StartsWith(text, CodeFence) /\ EndsWith(text, CodeFence)
    THEN FenceInner(Strip(Sub(text, 4, Len(text) - 3)),
                    FindFrom(Strip(Sub(text, 4, Len(text) - 3)), "\n", 1))
    ELSE text

strip_code_fences(text) == Unfenced(Strip(text))

\* extract_json_slice from position i, with len(stack) = depth
RECURSIVE SliceFrom(_, _, _, _)
SliceFrom(text, i, depth, start) ==
    IF i > Len(text) THEN text
    ELSE IF Ch(text, i) \in {"[", "{"}
    THEN SliceFrom(text, i + 1, depth + 1, IF depth = 0 THEN i ELSE start)
    ELSE IF Ch(text, i) \in {"]", "}"} /\ depth > 0
    THEN IF depth = 1 THEN Sub(text, start, i) ELSE SliceFrom(text, i + 1, depth - 1, start)
    ELSE SliceFrom(text, i + 1, depth, start)

extract_json_slice(text) == SliceFrom(text, 1, 0, 0)

\* lines 29-33: the content of an object that has one; str() of another value that is
\* not a str, which for a list is its repr
AsText(raw_output) ==
    IF raw_output.type = "content" THEN raw_output.val
    ELSE IF raw_output.type = "none" THEN PyStr("None")
    ELSE IF raw_output.type # "str" THEN PyStr(raw_output.val)
    ELSE raw_output

\* the value a stage returns, with the stages tried
Returned(stage, val, tried) ==
    [raised |-> FALSE, stage |-> stage, val |-> val, tried |-> tried, message |-> <<>>]

\* ValueError("No content to parse")
NoContent ==
    [raised |-> TRUE, stage |-> 0, val |-> "", tried |-> <<>>,
     message |-> <<"No content to parse">>]

\* ValueError(f"Failed to parse JSON output: {e}; raw={raw_output}"), e being the
\* JSONDecodeError of json.loads(text)
ParseError(tried, text, raw_output) ==
    [raised |-> TRUE, stage |-> 0, val |-> "", tried |-> tried,
     message |-> <<"Failed to parse JSON output: ", [JSONDecodeError |-> text],
                   "; raw=", raw_output>>]

\* 6) parse the whole text
Stage6(text, raw_output, tried, r) ==
    IF r.ok THEN Returned(6, r.val, tried) ELSE ParseError(tried, text, raw_output)

\* 5) literal_eval of the candidate
Stage5(text, raw_output, tried, r) ==
    IF r.ok THEN Returned(5, r.val, tried)
    ELSE Stage6(text, raw_output, Append(tried, 6), json_loads(text))

\* 4) json.loads of the candidate with its single quotes replaced
Stage4(candidate, text, raw_output, tried, r) ==
    IF r.ok THEN Returned(4, r.val, tried)
    ELSE Stage5(text, raw_output, Append(tried, 5), literal_eval(candidate))

\* a soft fix wherever the candidate has a single quote
SoftAlways(soft) == Contains(soft, "'")

\* "'" in soft and '"' not in soft
SoftApplies(soft) == Contains(soft, "'") /\ ~Contains(soft, "\"")

\* 3) json.loads of the candidate
Stage3(candidate, text, raw_output, r) ==
    IF r.ok THEN Returned(3, r.val, <<3>>)
    ELSE IF SoftApplies(candidate)
    THEN Stage4(candidate, text, raw_output, <<3, 4>>,
                json_loads(Replace(candidate, "'", "\"")))
    ELSE Stage5(text, raw_output, <<3, 5>>, literal_eval(candidate))

\* 2) the candidate slice of the text
ParseCandidate(candidate, text, raw_output) ==
    Stage3(candidate, text, raw_output, json_loads(candidate))

\* 1) the text without its fences
ParseText(text, raw_output) == ParseCandidate(extract_json_slice(text), text, raw_output)

\* lines 71-78, raw_output being what lines 29-33 made of the argument
ParseCoerced(raw_output) ==
    IF raw_output.type = "none" THEN NoContent
    ELSE IF raw_output.type \in {"dict", "list"} THEN Returned(0, raw_output.val, <<>>)
    ELSE ParseText(strip_code_fences(raw_output.val), raw_output.val)

safe_json_parse(raw_output) == ParseCoerced(AsText(raw_output))

\* length of the texts over ParseChars handed to safe_json_parse
MaxChars == 4

ParseChars == {"[", "]", "'", "\"", "1", ","}

\* longer texts: a list in commentary, a trailing comma, brackets within strings
LongTexts ==
    {"Here it is: [1, 1] done", "['',]", "[1, 'a']", "[\"]\"]", "\"[,]\"", "[[1], [1, 1]]",
     "None", "null", "[1, None]", "[null]"}

\* a text as it is, in a code fence, and in a code fence with a language tag
Fenced(body) ==
    {body, CodeFence \o body \o CodeFence, CodeFence \o "json\n" \o body \o "\n" \o CodeFence}

\* the repr of the lists handed to safe_json_parse
ListValues == {"[]", "[1]", "['a']", "[']']", "[[1], 'a']"}

RawOutputs ==
    {PyStr(text) :
        text \in UNION {Fenced(body) : body \in Texts(ParseChars, MaxChars) \cup LongTexts}}
    \cup {[type |-> "list", val |-> v] : v \in ListValues}
    \cup {[type |-> "content", val |-> PyStr("[1]")],
          [type |-> "content", val |-> [type |-> "list", val |-> "[1]"]],
          [type |-> "content", val |-> PyNone],
          PyNone}

InitParse ==
    /\ pc = "safe_json_parse"
    /\ summary_quotes = <<>>
    /\ summary_sections = <<>>
    /\ sections = <<>>
    /\ citation_ids = <<>>
    /\ ref_log = <<>>
    /\ calls = <<>>
    /\ arg \in RawOutputs
    /\ res = NoValue

SafeJsonParse ==
    /\ pc = "safe_json_parse"
    /\ res = NoValue
    /\ res' = safe_json_parse(arg)
    /\ UNCHANGED <<pc, summary_quotes, summary_sections, sections, citation_ids, ref_log,
                   calls, arg>>

SpecParse == InitParse /\ [][SafeJsonParse]_vars

-----------------------------------------------------------------------------
(* Two get_json_summary invocations in progress at once, one per answer, each handed
   its own DisambiguationState; every variable of an invocation is indexed by its run *)

Runs == {"a", "b"}

\* bracket tokens in all the sections of one of the two answers
MaxRunRefs == 2

\* both answers are assembled against the pool with two papers of one author and year
RunPools == {s.quotes : s \in {t \in Scenarios : t.pieces = {K1, K2}}}

\* a state that is the state of the first run, whichever run asks
StateOfFirst(ids, run) == ids["a"]

\* the citation_ids argument of the invocation
StateOf(ids, run) == ids[run]

InitRuns ==
    /\ pc = [r \in Runs |-> "start"]
    /\ summary_quotes \in [Runs -> RunPools]
    /\ summary_sections = [r \in Runs |-> <<>>]
    /\ sections = [r \in Runs |-> <<>>]
    /\ citation_ids = [r \in Runs |-> <<>>]
    /\ ref_log = [r \in Runs |-> <<>>]
    /\ Idle

RunBuildPools(run) ==
    /\ pc[run] = "start"
    /\ pc' = [pc EXCEPT ![run] = IF HasInlineCitations(summary_quotes[run])
                                 THEN "sections" ELSE "raised"]
    /\ UNCHANGED <<summary_quotes, summary_sections, sections, citation_ids, ref_log,
                   calls, arg, res>>

\* one iteration of the loop of run
RunProcessSection(run, sec) ==
    /\ pc[run] = "sections"
    /\ \E r \in {SectionStep(sec, LlmModel, summary_quotes[run], StateOf(citation_ids, run))} :
           /\ summary_sections' = [summary_sections EXCEPT ![run] = Append(@, sec)]
           /\ IF r.raised
              THEN /\ pc' = [pc EXCEPT ![run] = "raised"]
                   /\ citation_ids' = [citation_ids EXCEPT ![run] = r.ids]
                   /\ UNCHANGED <<sections, ref_log>>
              ELSE /\ pc' = pc
                   /\ sections' = [sections EXCEPT ![run] = Append(@, r.section)]
                   /\ citation_ids' = [citation_ids EXCEPT ![run] = r.ids]
                   /\ ref_log' = [ref_log EXCEPT ![run] = Append(@, r.log)]
    /\ UNCHANGED <<summary_quotes, calls, arg, res>>

RunNextSection(run) ==
    /\ pc[run] = "sections"
    /\ Len(summary_sections[run]) < MaxSections
    /\ \/ \E pieces \in PieceSeqs(Pieces(summary_quotes[run]),
                                   MaxRunRefs - RefsIn(summary_sections[run])) :
              RunProcessSection(run, SectionText(pieces))
       \/ RunProcessSection(run, Malformed)

RunReturn(run) ==
    /\ pc[run] = "sections"
    /\ pc' = [pc EXCEPT ![run] = "returned"]
    /\ UNCHANGED <<summary_quotes, summary_sections, sections, citation_ids, ref_log,
                   calls, arg, res>>

NextRuns ==
    \E run \in Runs :
        \/ RunBuildPools(run)
        \/ RunNextSection(run)
        \/ RunReturn(run)

SpecRuns == InitRuns /\ [][NextRuns]_vars

-----------------------------------------------------------------------------
(* The resolution of one bracket token against the two pools, lines 266-297 *)

K5 == "[77 | Müller | 2020 | Citations: 1]"

\* pools for the resolution: keys of both pools with a common id prefix, a key that is
\* in both pools, an inline key with the id of a primary key, a key to transliterate
ResolvePools ==
    { << <<K1, QuoteRecord("relevant text", << <<I2, "abstract two">> >>)>>,
         <<K4, QuoteRecord("more text", <<>>)>> >>,
      << <<K1, QuoteRecord("relevant text", << <<K1, "abstract">>, <<I1, "abstract one">> >>)>> >>,
      << <<K1, QuoteRecord("relevant text", << <<I2, "abstract two">> >>)>> >>,
      << <<K2, QuoteRecord("...A... B...C...", << <<I2, "abstract two">> >>)>>,
         <<K5, QuoteRecord("other text", <<>>)>> >> }

\* bracket tokens as re.findall returns them
ResolveTokens ==
    {K1, I1, I2, K5, "[123]", "[129]", "[1234]", "[456]", "[arXiv:123]", "[12]", "[1]",
     "[4]", "[9]", "[ ]", "[Müller]", "[paperId 129 | Wu]"}

InitResolve ==
    /\ pc = "resolve"
    /\ summary_quotes \in ResolvePools
    /\ summary_sections = <<>>
    /\ sections = <<>>
    /\ citation_ids = <<>>
    /\ ref_log = <<>>
    /\ calls = <<>>
    /\ arg \in ResolveTokens
    /\ res = NoValue

\* res holds resolved_key and resolved_source of the token arg
Resolve ==
    /\ pc = "resolve"
    /\ res = NoValue
    /\ res' = ResolveKey(anyascii(arg), MainPool(summary_quotes), InlinePool(summary_quotes))
    /\ UNCHANGED <<pc, summary_quotes, summary_sections, sections, citation_ids, ref_log,
                   calls, arg>>

SpecResolve == InitResolve /\ [][Resolve]_vars

-----------------------------------------------------------------------------
(* Properties of resolve_ref_id *)

\* the <<ref_str, corpus id>> pairs recorded in the DisambiguationState
Assigned == {<<s, c>> : s \in DOMAIN citation_ids, c \in CorpusIds} \cap
            UNION {{<<s, c>> : c \in DOMAIN citation_ids[s]} : s \in DOMAIN citation_ids}

\* C1: after any sequence of resolve_ref_id calls from the empty state, two distinct
\* corpus ids never hold the same label, under the same author/year string or under
\* two different ones.
C1_LabelsNeverShared ==
    pc = "resolve_ref_id" =>
        \A x, y \in Assigned :
            x[2] # y[2] => citation_ids[x[1]][x[2]] # citation_ids[y[1]][y[2]]

-----------------------------------------------------------------------------
(* Properties of the labels in one answer *)

CitedEntries(i) == SelectSeq(ref_log[i], LAMBDA e : e.cited)

\* the citations of section i, each with the author/year string it was rendered from
Rendered(i) ==
    [k \in 1..Len(sections[i].citations) |->
        [ref_str |-> RefStr(KeyParts(CitedEntries(i)[k].key)),
         source |-> CitedEntries(i)[k].source,
         corpus_id |-> sections[i].citations[k].corpus_id,
         id |-> sections[i].citations[k].id]]

RECURSIVE RenderedUpTo(_)
RenderedUpTo(n) == IF n = 0 THEN <<>> ELSE RenderedUpTo(n - 1) \o Rendered(n)

\* the citations of the answer, in the order they were made
AnswerCitations == RenderedUpTo(Len(sections))

\* C2: within one answer a corpus id carries the same label in every citation of it, in
\* every section, whether its token resolved through a primary or an inline pool key.
C2_OneLabelPerCorpusId ==
    pc \in {"sections", "returned"} =>
        \A a, b \in 1..Len(AnswerCitations) :
            AnswerCitations[a].corpus_id = AnswerCitations[b].corpus_id
                => AnswerCitations[a].id = AnswerCitations[b].id

\* b is the first citation of a second corpus id under the author/year string of a
SecondUnder(cs, a, b) ==
    /\ a < b
    /\ cs[a].ref_str = cs[b].ref_str
    /\ cs[a].corpus_id # cs[b].corpus_id
    /\ \A k \in 1..(b - 1) : cs[k].ref_str = cs[a].ref_str => cs[k].corpus_id = cs[a].corpus_id

\* C3: corpus ids of one answer that render as the same author/year string get pairwise
\* distinct labels; a later citation of one of them under that string, in the same or a
\* later section, carries the label first assigned to it; and of two ids rendering as
\* "(Smith, 2020)" cited in sequence the second is labelled "(Smith_1, 2020)".
C3_SameStringDisambiguated ==
    pc \in {"sections", "returned"} =>
        \E cs \in {AnswerCitations} : \A a, b \in 1..Len(cs) :
            (a < b /\ cs[a].ref_str = cs[b].ref_str) =>
                /\ cs[a].corpus_id # cs[b].corpus_id => cs[a].id # cs[b].id
                /\ cs[a].corpus_id = cs[b].corpus_id => cs[a].id = cs[b].id
                /\ (SecondUnder(cs, a, b) /\ cs[a].ref_str = "(Smith, 2020)")
                       => cs[b].id = "(Smith_1, 2020)"

\* two ids rendering as "(Smith, 2020)" were cited in sequence and the second one was
\* cited again in a later section
C3_Witness ==
    /\ pc \in {"sections", "returned"}
    /\ \E a, b, c \in 1..Len(AnswerCitations) :
           /\ SecondUnder(AnswerCitations, a, b)
           /\ b < c
           /\ AnswerCitations[a].ref_str = "(Smith, 2020)"
           /\ AnswerCitations[c].ref_str = "(Smith, 2020)"
           /\ AnswerCitations[c].corpus_id = AnswerCitations[b].corpus_id
           /\ AnswerCitations[c].id = "(Smith_1, 2020)"

-----------------------------------------------------------------------------
(* Properties of normalize_id and get_section_text *)

\* C4: normalize_id is idempotent: applied to its own result it returns that result.
C4_NormalizeIdempotent ==
    (pc = "normalize_id" /\ Len(res) >= 2) => res[2] = res[1]

\* C5: a raw section text without a case-insensitive "tldr" makes get_section_text
\* raise; it returns no section, with empty or defaulted fields or otherwise.
C5_NoSummaryLineRaises ==
    (pc = "get_section_text" /\ res # NoValue /\ ~Contains(LowerStr(arg), "tldr"))
        => res.raised

\* get_section_text was applied to a non-empty text without "tldr", and raised
C5_Witness ==
    /\ pc = "get_section_text"
    /\ res # NoValue
    /\ arg # ""
    /\ ~Contains(LowerStr(arg), "tldr")
    /\ res.raised

-----------------------------------------------------------------------------
(* Properties of the resolution of the bracket tokens *)

Range(seq) == {seq[k] : k \in 1..Len(seq)}

\* "(Author, year)" of a pool key, plain or with the count suffix of its disambiguation
LabelsOf(key) ==
    {RefStr(KeyParts(key))} \cup
    {SuffixedRefStr(RefStr(KeyParts(key)), n) : n \in 1..Len(summary_quotes)}

\* C6: a bracket token of a section body that is verbatim a quote-pool key
\* [id | Author | year | Citations: n] resolves to that key's record: the section has
\* exactly one citation for it, labelled "(Author, year)", with corpus_id = id and the
\* snippets of that record's quote.
C6_VerbatimKeyCitesItsRecord ==
    pc \in {"sections", "returned"} =>
        \A i \in 1..Len(sections) : \A k \in 1..Len(summary_quotes) :
            Contains(summary_sections[i], summary_quotes[k][1]) =>
                \E rec \in {SelectSeq(sections[i].citations,
                                      LAMBDA c : c.corpus_id = KeyParts(summary_quotes[k][1])[1])} :
                    /\ Len(rec) = 1
                    /\ rec[1].id \in LabelsOf(summary_quotes[k][1])
                    /\ rec[1].snippets =
                           StripEach(Split(FixedQuote(summary_quotes[k][2].quote), "..."))

\* the pool with its entries in every order
Reorderings(pool) ==
    {[k \in 1..Len(pool) |-> pool[p[k]]] :
        p \in {q \in [1..Len(pool) -> 1..Len(pool)] : Range(q) = 1..Len(pool)}}

\* every bracket token of the raw section text is verbatim a key of one of the pools
VerbatimOnly(sec) ==
    /\ FindReferences(sec) # <<>>
    /\ Range(FindReferences(sec)) \subseteq
           Keys(MainPool(summary_quotes)) \cup Keys(InlinePool(summary_quotes))

\* C7: the citations of tokens that are verbatim pool keys do not depend on the
\* insertion order of the quote pool: the same section text assembled against the same
\* pool entries in another order yields the same citations (stated for the first
\* section of an answer, which every order starts with an empty DisambiguationState).
C7_PoolOrderIrrelevant ==
    (pc \in {"sections", "returned"} /\ Len(sections) >= 1
     /\ VerbatimOnly(summary_sections[1])) =>
        \A pool \in Reorderings(summary_quotes) :
            SectionStep(summary_sections[1], LlmModel, pool, <<>>).section.citations
                = sections[1].citations

\* the keys of pool whose normalized first field starts with the normalized token of ref
PrefixKeys(pool, ref) ==
    {k \in 1..Len(pool) : StartsWith(key_to_norm_id(pool[k][1]), NormRefId(ref))}

PoolOf(source) ==
    IF source = "main" THEN MainPool(summary_quotes) ELSE InlinePool(summary_quotes)

\* C8: a token without exact and without normalized-id match resolves by prefix only
\* to the single candidate key of its pool, and stays unresolved when two or more
\* quote-pool keys have a normalized first field starting with the normalized token.
C8_PrefixOnlyWhenUnique ==
    pc \in {"sections", "returned"} =>
        \A i \in 1..Len(ref_log) : \A e \in Range(ref_log[i]) :
            (e.how \in {"prefix", "none"} /\ NormRefId(e.ref) # "") =>
                /\ e.how = "prefix" => Cardinality(PrefixKeys(PoolOf(e.source), e.ref)) = 1
                /\ Cardinality(PrefixKeys(MainPool(summary_quotes), e.ref)) >= 2
                       => e.key = ""

\* C9: the citations list of every section returned holds at most one record per
\* normalized corpus id, however many tokens of the section resolve to that id and in
\* whatever spelling.
C9_OneRecordPerCorpusId ==
    pc \in {"sections", "returned"} =>
        \A i \in 1..Len(sections) : \A a, b \in 1..Len(sections[i].citations) :
            a # b => normalize_id(sections[i].citations[a].corpus_id)
                         # normalize_id(sections[i].citations[b].corpus_id)

\* two differently spelled tokens of one section resolved to the same corpus id, and
\* the section holds one record for it
C9_Witness ==
    /\ pc \in {"sections", "returned"}
    /\ \E i \in 1..Len(sections) : \E a, b \in 1..Len(ref_log[i]) :
           /\ a < b
           /\ ref_log[i][a].ref # ref_log[i][b].ref
           /\ ref_log[i][a].cited
           /\ ref_log[i][b].key # ""
           /\ KeyParts(ref_log[i][a].key)[1] = KeyParts(ref_log[i][b].key)[1]
           /\ Len(sections[i].citations) = 1

\* C10: every bracket token of a section body that resolves to a corpus id is replaced
\* in the final text by the label of that citation, also when the corpus id was cited
\* earlier in the section through a differently spelled token.
C10_ResolvedTokensReplaced ==
    pc \in {"sections", "returned"} =>
        \A i \in 1..Len(sections) : \A e \in Range(ref_log[i]) :
            e.key # "" =>
                /\ ~Contains(sections[i].text, e.ref)
                /\ \E c \in Range(sections[i].citations) :
                       /\ normalize_id(c.corpus_id) = normalize_id(KeyParts(e.key)[1])
                       /\ Contains(sections[i].text, c.id)

-----------------------------------------------------------------------------
(* Properties of the unresolved tokens and of the section summary *)

\* the bracket tokens of section i as the loop over the references meets them
RawReferences(i) ==
    FindReferences(Replace(AdjacencyFix(get_section_text(summary_sections[i]).text),
                           "[]", ""))

\* C11: a bracket token that matches no pool key exactly, by normalized id or by unique
\* prefix is absent from the final text of its section whatever characters it contains,
\* adds no citation, and the tokens after it in the section are still processed.
C11_UnresolvedTokensRemoved ==
    pc \in {"sections", "returned"} =>
        \A i \in 1..Len(sections) : \E refs \in {RawReferences(i)} :
            /\ Len(ref_log[i]) = Len(refs)
            /\ \A j \in 1..Len(refs) :
                   ref_log[i][j].key = "" =>
                       /\ ~ref_log[i][j].cited
                       /\ ~Contains(sections[i].text, refs[j])

\* the normalized corpus ids the tokens of section i resolved to
ResolvedIds(i) ==
    {normalize_id(KeyParts(e.key)[1]) : e \in {x \in Range(ref_log[i]) : x.key # ""}}

\* " (1 source)", " (N sources)" or " (LLM Memory)"
SourcesSuffix(n) ==
    IF n = 0 THEN " (LLM Memory)"
    ELSE IF n = 1 THEN " (1 source)"
    ELSE " (" \o ToString(n) \o " sources)"

\* C16: the tldr of a section that has one ends with " (1 source)" when the section has
\* exactly one citation record, " (N sources)" when it has N > 1 and " (LLM Memory)"
\* when it has none; N counts the deduplicated records, not the tokens.
C16_TldrSourceCount ==
    pc \in {"sections", "returned"} =>
        \A i \in 1..Len(sections) :
            \E tldr \in {get_section_text(summary_sections[i]).tldr} :
                \E n \in {Cardinality(ResolvedIds(i))} :
                    tldr # "" =>
                        /\ Len(sections[i].citations) = n
                        /\ sections[i].tldr = tldr \o SourcesSuffix(n)

\* the first section has three resolved tokens, two records and the tldr
\* "s (2 sources)"; the second has no record and the tldr "s (LLM Memory)"
C16_Witness ==
    /\ pc = "returned"
    /\ Len(sections) = 2
    /\ Len(ref_log[1]) = 3
    /\ \A e \in Range(ref_log[1]) : e.key # ""
    /\ Len(sections[1].citations) = 2
    /\ sections[1].tldr = "s (2 sources)"
    /\ sections[2].citations = <<>>
    /\ sections[2].tldr = "s (LLM Memory)"

\* C17: the answer has one section per input section, in input order, built over one
\* shared DisambiguationState: of two corpus ids with the same author/year string the
\* one cited first in the answer keeps the plain label and the later one is suffixed.
C17_SectionsInOrderSharedState ==
    pc \in {"sections", "returned"} =>
        /\ Len(sections) = Len(summary_sections)
        /\ \A i \in 1..Len(sections) : \E refs \in {RawReferences(i)} :
               /\ sections[i].title = get_section_text(summary_sections[i]).title
               /\ Len(ref_log[i]) = Len(refs)
               /\ \A j \in 1..Len(refs) : ref_log[i][j].ref = anyascii(refs[j])
        /\ \E cs \in {AnswerCitations} : \A a, b \in 1..Len(cs) :
               SecondUnder(cs, a, b) =>
                   /\ cs[a].id = cs[a].ref_str
                   /\ cs[b].id = SuffixedRefStr(cs[a].ref_str, 1)

\* the answer was returned with two sections, the first citing one id as "(Smith, 2020)"
\* and the second citing another id of that author/year string for the first time
C17_Witness ==
    /\ pc = "returned"
    /\ Len(sections) = 2
    /\ Len(sections[1].citations) = 1
    /\ sections[1].citations[1].id = "(Smith, 2020)"
    /\ \E c \in Range(sections[2].citations) :
           /\ c.corpus_id # sections[1].citations[1].corpus_id
           /\ c.id = "(Smith_1, 2020)"

\* what follows the first occurrence of the tldr token in the raw text
AfterToken(gen_text, tldr_token) ==
    From(gen_text, FindFrom(gen_text, tldr_token, 1) + Len(tldr_token))

\* C18: get_section_text never returns a section with an empty or missing body; it
\* raises when nothing follows the tldr token and when the content after the token has
\* no line beyond the tldr line.
C18_BodyNeverEmpty ==
    (pc = "get_section_text" /\ res # NoValue) =>
        /\ ~res.raised => Strip(res.text) # ""
        /\ (find_tldr_super_token(arg) # ""
            /\ ~Contains(Strip(AfterToken(arg, find_tldr_super_token(arg))), "\n"))
               => res.raised

\* get_section_text raised on a text with a tldr token and a tldr line but no line
\* after it
C18_Witness ==
    /\ pc = "get_section_text"
    /\ res # NoValue
    /\ res.raised
    /\ find_tldr_super_token(arg) = "TLDR:"
    /\ Strip(AfterToken(arg, "TLDR:")) = "Body"

\* C19: a quote record with a quote and no inline_citations map is a valid input:
\* get_json_summary does not raise on a pool in which some record lacks it.
C19_InlineCitationsOptional ==
    (\E k \in 1..Len(summary_quotes) : "inline_citations" \notin DOMAIN summary_quotes[k][2])
        => pc # "raised"

-----------------------------------------------------------------------------
(* Properties of the citation records *)

\* C12: for every quote text the snippets of the citation built from it hold no empty
\* and no whitespace-only fragment, and the quote "...A... B...C..." yields exactly
\* the snippets "A", "B", "C".
C12_NoEmptySnippet ==
    (pc = "pop_ref_data" /\ res # NoValue) =>
        /\ \A k \in 1..Len(res.snippets) : Strip(res.snippets[k]) # ""
        /\ arg.quote = "...A... B...C..." => res.snippets = <<"A", "B", "C">>

\* int() accepts the year of the entry
Convertible(entry) ==
    /\ "year" \in DOMAIN entry
    /\ \/ entry.year.type = "int"
       \/ entry.year.type = "str" /\ entry.year.val \in {"2021"}

\* C20: without a metadata entry the citation record carries only id, snippets and the
\* corpus id; with an entry it also carries title, authors, venue, citation count, the
\* year as an integer (0 when it is not convertible) and a score that defaults to 0; in
\* both cases the corpus id is stored as a string.
C20_MetadataFields ==
    (pc = "pop_ref_data" /\ res # NoValue) =>
        /\ arg.ref_corpus_id.type = "str" => res.corpus_id = arg.ref_corpus_id.val
        /\ arg.ref_corpus_id.type = "int" => res.corpus_id = "123"
        /\ arg.curr_paper_metadata = NoValue => DOMAIN res = {"id", "snippets", "corpus_id"}
        /\ arg.curr_paper_metadata # NoValue =>
               /\ DOMAIN res = {"id", "snippets", "corpus_id", "score", "title", "authors",
                                "year", "venue", "n_citations"}
               /\ res.title = arg.curr_paper_metadata.title
               /\ res.authors = arg.curr_paper_metadata.authors
               /\ res.venue = arg.curr_paper_metadata.venue
               /\ res.n_citations = arg.curr_paper_metadata.citationCount
               /\ res.year \in Nat
               /\ ~Convertible(arg.curr_paper_metadata) => res.year = 0
               /\ (Convertible(arg.curr_paper_metadata)
                   /\ arg.curr_paper_metadata.year.type = "str") => res.year = 2021
               /\ (Convertible(arg.curr_paper_metadata)
                   /\ arg.curr_paper_metadata.year.type = "int")
                      => res.year = arg.curr_paper_metadata.year.val
               /\ res.score = IF "relevance_judgement" \in DOMAIN arg.curr_paper_metadata
                              THEN arg.curr_paper_metadata.relevance_judgement ELSE 0

\* a record was built for a numeric corpus id from an entry without a score whose year
\* is not a number
C20_Witness ==
    /\ pc = "pop_ref_data"
    /\ res # NoValue
    /\ arg.ref_corpus_id.type = "int"
    /\ arg.curr_paper_metadata # NoValue
    /\ "year" \in DOMAIN arg.curr_paper_metadata
    /\ arg.curr_paper_metadata.year.type = "str"
    /\ arg.curr_paper_metadata.year.val = "n/a"
    /\ res.corpus_id = "123"
    /\ res.year = 0
    /\ res.score = 0
    /\ res.title = "T"

-----------------------------------------------------------------------------
(* Properties of safe_json_parse *)

\* C13: given an already structured value, a list, safe_json_parse returns that value
\* as it is, without converting it to text and without running any parse stage.
C13_StructuredReturnedAsIs ==
    (pc = "safe_json_parse" /\ res # NoValue /\ arg.type = "list") =>
        /\ ~res.raised
        /\ res.val = arg.val
        /\ res.tried = <<>>

\* the text and the candidate slice that the stages work on
StagedText == strip_code_fences(AsText(arg).val)

StagedCandidate == extract_json_slice(StagedText)

\* what each stage does, taken on its own
StageResult(n) ==
    CASE n = 3 -> json_loads(StagedCandidate)
      [] n = 4 -> json_loads(Replace(StagedCandidate, "'", "\""))
      [] n = 5 -> literal_eval(StagedCandidate)
      [] n = 6 -> json_loads(StagedText)

\* the stages in their order; the quote substitution is one of them only for a
\* candidate with single quotes and without double quotes
StagesDue ==
    IF Contains(StagedCandidate, "'") /\ ~Contains(StagedCandidate, "\"")
    THEN <<3, 4, 5, 6>> ELSE <<3, 5, 6>>

\* the result is that of the first of the stages due that succeeds, else the error
FirstSuccess(due, ok) ==
    IF ok = {}
    THEN /\ res.raised
         /\ res.tried = due
         /\ res.message = <<"Failed to parse JSON output: ", [JSONDecodeError |-> StagedText],
                            "; raw=", AsText(arg).val>>
    ELSE /\ ~res.raised
         /\ res.tried = SubSeq(due, 1, Min(ok))
         /\ res.stage = due[Min(ok)]
         /\ res.val = StageResult(due[Min(ok)]).val

\* C14: safe_json_parse tries its stages in a fixed order: strict parse of the candidate
\* slice; quote substitution, only when the candidate has single quotes and no double
\* quotes; literal parse of the candidate; strict parse of the whole text.  It returns
\* the result of the first stage that succeeds and raises only when every stage has
\* failed, with a message that holds the last underlying error and the raw content.
C14_StagesInOrder ==
    (pc = "safe_json_parse" /\ res # NoValue /\ AsText(arg).type = "str") =>
        FirstSuccess(StagesDue, {k \in 1..Len(StagesDue) : StageResult(StagesDue[k]).ok})

\* a text went through the four stages and every one of them failed
C14_Witness ==
    /\ pc = "safe_json_parse"
    /\ res # NoValue
    /\ arg.type = "str"
    /\ res.raised
    /\ res.tried = <<3, 4, 5, 6>>
    /\ res.message[4] = arg.val

\* C15: the last stage strictly parses the input text as it was received, before any
\* code-fence stripping: a text that reaches the last stage is decoded exactly when
\* the text as received is valid JSON, and to the value of that text.
C15_LastStageParsesOriginal ==
    (pc = "safe_json_parse" /\ res # NoValue /\ 6 \in Range(res.tried)) =>
        IF json_loads(AsText(arg).val).ok
        THEN ~res.raised /\ res.val = json_loads(AsText(arg).val).val
        ELSE res.raised

-----------------------------------------------------------------------------
(* Properties of two answers assembled at once *)

RECURSIVE AloneFrom(_, _, _)

\* the rest of the run after the step r of its first section
AloneNext(secs, quotes, acc, r) ==
    IF r.raised THEN [acc EXCEPT !.raised = TRUE]
    ELSE AloneFrom(Tail(secs), quotes,
                   [raised |-> FALSE, sections |-> Append(acc.sections, r.section),
                    ids |-> r.ids])

\* get_json_summary run alone over secs: the sections built, the state left and whether
\* a section raised
AloneFrom(secs, quotes, acc) ==
    IF secs = <<>> THEN acc
    ELSE AloneNext(secs, quotes, acc, SectionStep(secs[1], LlmModel, quotes, acc.ids))

Alone(secs, quotes) ==
    AloneFrom(secs, quotes, [raised |-> FALSE, sections |-> <<>>, ids |-> <<>>])

\* the corpus ids recorded in a DisambiguationState
RecordedIds(ids) == UNION {DOMAIN ids[s] : s \in DOMAIN ids}

\* C21: two get_json_summary runs whose section steps interleave, each with its own
\* initially empty DisambiguationState, build exactly the sections and labels each
\* builds when run alone, and the state of a run holds only corpus ids cited in the
\* sections of that run.
C21_RunsIndependent ==
    (DOMAIN pc = Runs) =>
        \A run \in Runs : \E alone \in {Alone(summary_sections[run], summary_quotes[run])} :
            /\ sections[run] = alone.sections
            /\ citation_ids[run] = alone.ids
            /\ (pc[run] = "raised") = alone.raised
            /\ \A c \in RecordedIds(citation_ids[run]) :
                   \E i \in 1..Len(summary_sections[run]) :
                       Contains(summary_sections[run][i], "[" \o c \o " | ")

\* both runs are in progress, the first after two sections that cite two papers of one
\* author and year, the second after one section that cites the second of these papers:
\* the paper is labelled "(Smith_1, 2020)" in the first answer and "(Smith, 2020)" in
\* the second, whose state holds no entry of the first paper
C21_Witness ==
    /\ DOMAIN pc = Runs
    /\ pc["a"] = "sections"
    /\ pc["b"] = "sections"
    /\ Len(sections["a"]) = 2
    /\ Len(sections["b"]) = 1
    /\ Len(sections["a"][1].citations) = 1
    /\ Len(sections["a"][2].citations) = 1
    /\ Len(sections["b"][1].citations) = 1
    /\ sections["a"][1].citations[1].corpus_id = "123"
    /\ sections["a"][2].citations[1].corpus_id = "456"
    /\ sections["b"][1].citations[1].corpus_id = "456"
    /\ sections["a"][2].citations[1].id = "(Smith_1, 2020)"
    /\ sections["b"][1].citations[1].id = "(Smith, 2020)"
    /\ RecordedIds(citation_ids["b"]) = {"456"}

-----------------------------------------------------------------------------
(* Properties of the preprocessing of the section body *)

\* the text the token scan of section i runs on
Preprocessed(i) ==
    Replace(AdjacencyFix(get_section_text(summary_sections[i]).text), "[]", "")

\* every composite-key-shaped fragment of text is inside its own bracket pair
InOwnBrackets(text) ==
    \A g \in 1..Len(text) :
        CompositeEnd(text, g) # 0 =>
            /\ Ch(text, RunLo(text, g, NonSpaceClass)) = "["
            /\ Ch(text, CompositeEnd(text, g) + 1) = "]"

\* C22: the adjacency repair inserts "] [" only before a composite-key-shaped fragment
\* that is not already inside its own bracket pair: a body whose fragments
\* [id | Name | year | Citations: n] are all well-formed tokens, and that has no empty
\* bracket pair, reaches the token scan unchanged.
C22_WellFormedTokensUnchanged ==
    pc \in {"sections", "returned"} =>
        \A i \in 1..Len(sections) : \E body \in {get_section_text(summary_sections[i]).text} :
            (InOwnBrackets(body) /\ ~Contains(body, "[]")) => Preprocessed(i) = body

-----------------------------------------------------------------------------
(* Properties of the resolution of one token *)

\* the keys of pool whose normalized first field starts with the normalized token
PrefixCandidates(pool, ref) ==
    {k \in Keys(pool) : NormRefId(ref) # "" /\ StartsWith(key_to_norm_id(k), NormRefId(ref))}

\* the keys of pool that a stage finds for the transliterated token ref
Found(how, pool, ref) ==
    CASE how = "exact" -> {k \in Keys(pool) : k = ref}
      [] how = "id" -> {k \in Keys(pool) : key_to_norm_id(k) = NormRefId(ref)}
      [] how = "prefix" -> IF Cardinality(PrefixCandidates(pool, ref)) = 1
                           THEN PrefixCandidates(pool, ref) ELSE {}

\* the stages in their priority
ResolutionStages ==
    << [how |-> "exact", source |-> "main"], [how |-> "exact", source |-> "inline"],
       [how |-> "id", source |-> "main"], [how |-> "id", source |-> "inline"],
       [how |-> "prefix", source |-> "main"], [how |-> "prefix", source |-> "inline"] >>

StageFound(n, ref) ==
    Found(ResolutionStages[n].how,
          IF ResolutionStages[n].source = "main" THEN MainPool(summary_quotes)
          ELSE InlinePool(summary_quotes),
          ref)

\* the resolution is that of the first of the stages that finds a key
FirstFinding(hits, ref) ==
    IF hits = {} THEN res = Unresolved
    ELSE /\ res.how = ResolutionStages[Min(hits)].how
         /\ res.source = ResolutionStages[Min(hits)].source
         /\ res.key \in StageFound(Min(hits), ref)

\* C23: a token is resolved by the first of these stages that finds a key: exact key in
\* the quote pool, exact key in the inline pool, normalized id in the quote pool,
\* normalized id in the inline pool, unique prefix in the quote pool, unique prefix in
\* the inline pool; it stays unresolved when none does.
C23_StagesInPriority ==
    (pc = "resolve" /\ res # NoValue) =>
        FirstFinding({n \in 1..Len(ResolutionStages) : StageFound(n, anyascii(arg)) # {}},
                     anyascii(arg))

\* each pool has a unique prefix candidate for the token, no earlier stage finds a key,
\* and the token resolved to the candidate of the quote pool
C23_Witness ==
    /\ pc = "resolve"
    /\ res # NoValue
    /\ \A n \in 1..4 : StageFound(n, arg) = {}
    /\ Cardinality(StageFound(5, arg)) = 1
    /\ Cardinality(StageFound(6, arg)) = 1
    /\ res.source = "main"
    /\ res.how = "prefix"
    /\ res.key = K1

-----------------------------------------------------------------------------
(* Properties of the suffixed labels *)

\* ref_str with "_k" inserted before its first comma, or appended when it has none
WithSuffix(ref_str, k) ==
    IF ~Contains(ref_str, ",") THEN ref_str \o "_" \o ToString(k)
    ELSE Sub(ref_str, 1, FindFrom(ref_str, ",", 1) - 1) \o "_" \o ToString(k)
         \o From(ref_str, FindFrom(ref_str, ",", 1))

\* the corpus ids recorded under the author/year string of call j before that call
RecordedBefore(j) ==
    {calls[m].ref_corpus_id : m \in {x \in 1..(j - 1) : calls[x].ref_str = calls[j].ref_str}}

\* C24: when an author/year string already has k >= 1 distinct corpus ids recorded, the
\* label of a new corpus id is that string with "_k" inserted immediately before its
\* first comma, or appended when it has no comma, and every other character kept, also
\* when the string has more than one comma.
C24_SuffixKeepsTheString ==
    pc = "resolve_ref_id" =>
        \A j \in 1..Len(calls) : \E prior \in {RecordedBefore(j)} :
            (prior # {} /\ calls[j].ref_corpus_id \notin prior) =>
                calls[j].ref_str_id = WithSuffix(calls[j].ref_str, Cardinality(prior))

-----------------------------------------------------------------------------
(* Properties of the final text *)

\* C25: the final text of every section of the answer holds no run of two or more
\* consecutive space characters, whatever its tokens were replaced by or removed for.
C25_NoSpaceRuns ==
    pc \in {"sections", "returned"} =>
        \A i \in 1..Len(sections) : ~Contains(sections[i].text, "  ")

\* a returned section from whose body two unresolved tokens were removed, which leaves
\* the blanks around them next to each other
C25_Witness ==
    /\ pc = "returned"
    /\ \E i \in 1..Len(sections) :
           /\ Len(ref_log[i]) = 2
           /\ \A e \in Range(ref_log[i]) : e.key = "" /\ e.ref = "[999]"
           /\ Contains(summary_sections[i], "See [999] [999].")
           /\ sections[i].text = "See ."

-----------------------------------------------------------------------------
(* Properties of a tldr token that recurs *)

\* where the second occurrence of the token starts; 0 when it occurs once
SecondOccurrence(gen_text, tldr_token) ==
    FindFrom(gen_text, tldr_token, FindFrom(gen_text, tldr_token, 1) + Len(tldr_token))

\* the text between the first occurrence of the token and the occurrence at second
Between(gen_text, tldr_token, second) ==
    Strip(Sub(gen_text, FindFrom(gen_text, tldr_token, 1) + Len(tldr_token), second - 1))

\* the section is made of the title and of the two parts of between, or nothing is
\* returned when between is one line
MadeOf(between, tldr_token) ==
    IF ~Contains(between, "\n") THEN res.raised
    ELSE /\ ~res.raised
         /\ res.tldr = Strip(StripChars(Sub(between, 1, FindFrom(between, "\n", 1) - 1), {"#"}))
         /\ res.text = From(between, FindFrom(between, "\n", 1) + 1)
         /\ ~Contains(res.title \o res.tldr \o res.text, tldr_token)

\* C26: when the located tldr super-token occurs again later in the text, the tldr and
\* the body come only from the text between its first and its second occurrence, and
\* nothing from the second occurrence on is in the returned section.
C26_OnlyFirstTwoPieces ==
    (pc = "get_section_text" /\ res # NoValue) =>
        \E tldr_token \in {find_tldr_super_token(arg)} :
            (tldr_token # "" /\ SecondOccurrence(arg, tldr_token) # 0) =>
                MadeOf(Between(arg, tldr_token, SecondOccurrence(arg, tldr_token)), tldr_token)

\* a section was returned for a text whose token recurs after the body, with the lines
\* between the two occurrences as its tldr and body
C26_Witness ==
    /\ pc = "get_section_text"
    /\ arg = "Intro TLDR: s\nBody\nTLDR: t\nmore"
    /\ res # NoValue
    /\ ~res.raised
    /\ res.title = "Intro"
    /\ res.tldr = "s"
    /\ res.text = "Body"

-----------------------------------------------------------------------------
(* Properties of the entries of the DisambiguationState *)

\* the pair is recorded in ids
Recorded(ids, ref_str, ref_corpus_id) ==
    ref_str \in DOMAIN ids /\ ref_corpus_id \in DOMAIN ids[ref_str]

\* every entry of the state before the step is in the state after it, with its label
EntriesKept ==
    \A s \in DOMAIN citation_ids : \A c \in DOMAIN citation_ids[s] :
        Recorded(citation_ids', s, c) /\ citation_ids'[s][c] = citation_ids[s][c]

\* the call of the step, for a pair recorded before it, returns the stored label and
\* leaves the state as it was
RepeatIsNoOp(call) ==
    Recorded(citation_ids, call.ref_str, call.ref_corpus_id) =>
        /\ call.ref_str_id = citation_ids[call.ref_str][call.ref_corpus_id]
        /\ citation_ids' = citation_ids

\* C27: resolve_ref_id called with an (author/year string, corpus id) pair already
\* recorded returns the stored label and leaves the DisambiguationState unchanged, and
\* no call removes or alters an existing entry.
C27_EntriesNeverChange ==
    [][pc = "resolve_ref_id" => (EntriesKept /\ RepeatIsNoOp(calls'[Len(calls')]))]_vars

\* the second paper of an author/year string was resolved again after a call for
\* another string, and got the suffixed label it got the first time
C27_Witness ==
    /\ pc = "resolve_ref_id"
    /\ Len(calls) = 4
    /\ calls[1].ref_str = calls[2].ref_str
    /\ calls[1].ref_corpus_id # calls[2].ref_corpus_id
    /\ calls[3].ref_str # calls[2].ref_str
    /\ calls[4].ref_str = calls[2].ref_str
    /\ calls[4].ref_corpus_id = calls[2].ref_corpus_id
    /\ calls[2].ref_str_id = "(Smith_1, 2020)"
    /\ calls[4].ref_str_id = "(Smith_1, 2020)"
    /\ Cardinality(DOMAIN citation_ids[calls[2].ref_str]) = 2

-----------------------------------------------------------------------------
(* Properties of safe_json_parse on absent content *)

\* C28: safe_json_parse raises ValueError("No content to parse") whenever its input is
\* None or a response wrapper whose content is None; it returns no value for absent
\* content.
C28_AbsentContentRaises ==
    (pc = "safe_json_parse" /\ res # NoValue
     /\ (arg.type = "none" \/ (arg.type = "content" /\ arg.val.type = "none"))) =>
        /\ res.raised
        /\ res.message = <<"No content to parse">>

-----------------------------------------------------------------------------
(* Properties of the final text of a body of well-formed tokens *)

\* the label of the citation of the corpus id of token among citations
LabelFor(token, citations) ==
    (CHOOSE c \in Range(citations) : c.corpus_id = KeyParts(token)[1]).id

\* body with each of tokens replaced by its label
RECURSIVE Labelled(_, _, _)
Labelled(body, tokens, citations) ==
    IF tokens = <<>> THEN body
    ELSE Labelled(Replace(body, tokens[1], LabelFor(tokens[1], citations)), Tail(tokens),
                  citations)

\* C29: for a body of plain text and of well-formed bracket tokens
\* [id | Name | year | Citations: n] that all resolve, the final text is the body with
\* each token replaced by its label and the space runs collapsed; no "[", no "]" and
\* no other character that the preprocessing introduced is left in it.
C29_OnlyLabelsReplaceTokens ==
    pc \in {"sections", "returned"} =>
        \A i \in 1..Len(sections) :
            VerbatimOnly(summary_sections[i]) =>
                /\ ~Contains(sections[i].text, "[")
                /\ ~Contains(sections[i].text, "]")
                /\ \E body \in {get_section_text(summary_sections[i]).text} :
                       sections[i].text =
                           CollapseSpaces(Labelled(body, FindReferences(body),
                                                   sections[i].citations))

-----------------------------------------------------------------------------
(* Properties of an answer with a malformed section *)

\* C30: when section k of an answer is malformed, without a tldr token or without a
\* body after the tldr line, get_json_summary raises at section k: no later section is
\* consumed and no sections are returned, the valid sections before k included, while
\* the DisambiguationState keeps every entry recorded for the sections before k.
C30_RaiseKeepsState ==
    /\ (pc \in {"sections", "returned", "raised"} /\ HasInlineCitations(summary_quotes)) =>
           \A i \in 1..Len(summary_sections) :
               get_section_text(summary_sections[i]).raised
                   <=> (pc = "raised" /\ i = Len(summary_sections))
    /\ (pc = "raised" /\ HasInlineCitations(summary_quotes)) =>
           /\ res = NoValue
           /\ Len(sections) = Len(summary_sections) - 1
           /\ citation_ids = Alone(SubSeq(summary_sections, 1, Len(sections)),
                                   summary_quotes).ids
           /\ \A i \in 1..Len(sections) : \A c \in Range(sections[i].citations) :
                  c.corpus_id \in RecordedIds(citation_ids)

\* the second section of an answer has a tldr line and no body: the run raised after a
\* first section that cited a paper, whose entry is in the DisambiguationState
C30_Witness ==
    /\ pc = "raised"
    /\ Len(summary_sections) = 2
    /\ summary_sections[2] = NoBody
    /\ Len(sections) = 1
    /\ Len(sections[1].citations) = 1
    /\ res = NoValue
    /\ citation_ids = ("(Smith, 2020)" :> ("123" :> "(Smith, 2020)"))

====
